---- MODULE Spec2Model ----
(***************************************************************************)
(* Model of the background download scheduler of classroom_downloader_api: *)
(* DownloadWorker (app/workers/download_worker.py), the job store          *)
(* operations it uses (app/repositories/download_job_repository.py,        *)
(* app/repositories/base.py), the Fetcher's result and progress hook       *)
(* (app/services/video_downloader.py) and the cancel endpoint              *)
(* (app/api/routers/downloads.py).                                         *)
(*                                                                         *)
(* A store write becomes visible at its commit; every await between two    *)
(* commits is a point where the other coroutines may run.                  *)
(***************************************************************************)
EXTENDS Integers, Sequences, FiniteSets, Bags, TLC

\* ------------------------------------------------------------------ bounds
MaxJobs == 3
max_concurrent_downloads == 2
worker_max_retries == 1
\* disturbances in one run: cancel requests and exceptions in executions
MaxDisturbances == 1
\* largest byte count in a yt-dlp progress report
MaxBytes == 4

JobIds == 1..MaxJobs

\* ------------------------------------------------------------- value sets
PENDING == "pending"
DOWNLOADING == "downloading"
COMPLETED == "completed"
FAILED == "failed"
CANCELLED == "cancelled"
\* a job id for which no row has been created yet
ABSENT == "absent"

DownloadStatus == {PENDING, DOWNLOADING, COMPLETED, FAILED, CANCELLED}
TerminalStatus == {COMPLETED, FAILED, CANCELLED}

NULL == "null"
NoBytes == -1
\* error texts download_video can return (always non-empty)
FetchErrors == {"yt-dlp download error"}
\* str(e) of an exception caught at the job-execution boundary
ExceptionText == "exception"
\* the file the Fetcher produced and its st_size
OutputFile == "output_file"
OutputSize == 7
\* (downloaded_bytes, total_bytes) pairs yt-dlp reports to the hook
ProgressReports == {<<1, 2>>}

VARIABLES
    jobs,           \* download_jobs table: job id -> row
    video_links,    \* video_links table: video_link_id (= job id) -> row
    running,        \* DownloadWorker.running
    current_jobs,   \* DownloadWorker.current_jobs
    loop,           \* position of the start() loop
    pending_jobs,   \* result of the poll cycle's get_by_status query
    pending_rows,   \* the rows that query's WHERE clause matched, before LIMIT
    second_loop,    \* a second start() loop: its position and query result
    tasks,          \* bag of _process_download_job tasks not yet finished
    cancels,        \* cancel_download_job requests: job id -> position
    disturbances,   \* cancel requests received and exceptions raised so far
    progress,       \* the DownloadProgress object of a download_video call
    other_worker,   \* a second DownloadWorker instance on the same store
    fetches         \* history: job id -> download_video calls, as recorded by
                    \* CountedMarkDownloadingBy (SpecAttempts)

vars == <<jobs, video_links, running, current_jobs, loop, pending_jobs,
          pending_rows, second_loop, tasks, cancels, disturbances, progress,
          other_worker, fetches>>

\* ------------------------------------------------------------- the tables
\* DownloadJob column defaults
NewJob ==
    [status |-> PENDING, progress_percent |-> 0, downloaded_bytes |-> 0,
     total_bytes |-> NoBytes, error_message |-> NULL, retry_count |-> 0,
     output_path |-> NULL, file_size_bytes |-> NoBytes,
     started_at |-> 0, completed_at |-> FALSE]

NoJob == [NewJob EXCEPT !.status = ABSENT]

NewVideoLink == [is_downloaded |-> FALSE, download_path |-> NULL, file_size_bytes |-> NoBytes]

update_status_without_failed_stamp(job, status, error_message, now) ==
    LET s1 == [job EXCEPT !.status = status]
        s2 == IF status = DOWNLOADING
                THEN [s1 EXCEPT !.started_at = now]
                ELSE IF status \in {COMPLETED, CANCELLED}
                       THEN [s1 EXCEPT !.completed_at = TRUE]
                       ELSE s1
    IN  IF error_message # NULL /\ error_message # ""
          THEN [s2 EXCEPT !.error_message = error_message]
          ELSE s2

\* update_status: the columns written for a status
update_status(job, status, error_message, now) ==
    LET s1 == [job EXCEPT !.status = status]
        s2 == IF status = DOWNLOADING
                THEN [s1 EXCEPT !.started_at = now]
                ELSE IF status \in {COMPLETED, FAILED, CANCELLED}
                       THEN [s1 EXCEPT !.completed_at = TRUE]
                       ELSE s1
    IN  IF error_message # NULL /\ error_message # ""
          THEN [s2 EXCEPT !.error_message = error_message]
          ELSE s2

increment_retry_count_lost(job, held_retry_count) == job

\* increment_retry_count from the value the session holds for the row
increment_retry_count(job, held_retry_count) ==
    [job EXCEPT !.retry_count = held_retry_count + 1]

completed_update_keeping_progress(job, output_path, size) ==
    [job EXCEPT !.status = COMPLETED,
                !.output_path = output_path, !.file_size_bytes = size]

\* the worker's success write: BaseRepository.update with the four columns
completed_update(job, output_path, size) ==
    [job EXCEPT !.status = COMPLETED, !.progress_percent = 100,
                !.output_path = output_path, !.file_size_bytes = size]

mark_as_downloaded_without_size(link, download_path, size) ==
    [link EXCEPT !.is_downloaded = TRUE, !.download_path = download_path]

\* VideoLinkRepository.mark_as_downloaded
mark_as_downloaded(link, download_path, size) ==
    [link EXCEPT !.is_downloaded = TRUE, !.download_path = download_path,
                 !.file_size_bytes = size]

\* DownloadProgress()
NewDownloadProgress ==
    [status |-> "pending", downloaded_bytes |-> 0, total_bytes |-> NoBytes,
     progress_percent |-> 0]

\* DownloadWorker(): running False, current_jobs empty; no loop, no query
\* result, no execution task
NewDownloadWorker ==
    [running |-> FALSE, current_jobs |-> {}, loop |-> "not_started",
     pending_jobs |-> <<>>, tasks |-> {}]

\* ------------------------------------------------------------------- Init
Init ==
    /\ jobs = [j \in JobIds |-> NoJob]
    /\ video_links = [j \in JobIds |-> NewVideoLink]
    /\ running = FALSE
    /\ current_jobs = {}
    /\ loop = "not_started"
    /\ pending_jobs = <<>>
    /\ pending_rows = <<>>
    /\ second_loop = [pos |-> "not_started", pending_jobs |-> <<>>]
    /\ tasks = EmptyBag
    /\ cancels = [j \in JobIds |-> "none"]
    /\ disturbances = 0
    /\ progress = NewDownloadProgress
    /\ other_worker = NewDownloadWorker
    /\ fetches = [j \in JobIds |-> 0]


\* ------------------------------------------------------------ the queries
RECURSIVE Ascending(_)
\* ORDER BY created_at: job ids are handed out in creation order
Ascending(S) ==
    IF S = {} THEN <<>>
    ELSE LET m == CHOOSE x \in S : \A y \in S : x <= y
         IN  <<m>> \o Ascending(S \ {m})

Head_n(s, n) == IF n <= 0 THEN <<>> ELSE SubSeq(s, 1, IF n < Len(s) THEN n ELSE Len(s))

\* WHERE status = ... ORDER BY created_at ASC
rows_with_status(table, status) ==
    Ascending({j \in JobIds : table[j].status = status})

get_by_status_of_any_status(table, status, limit) ==
    Head_n(Ascending({j \in JobIds : table[j].status # ABSENT}), limit)

\* get_by_status(status, skip=0, limit): ids of the rows with that status
get_by_status(table, status, limit) ==
    Head_n(rows_with_status(table, status), limit)

SeqToSet(s) == {s[i] : i \in DOMAIN s}

\* ------------------------------------------------------ the poll cycle
jobs_to_process_unfiltered(pending, in_flight) == pending

\* the in-flight filter of _process_pending_jobs
jobs_to_process(pending, in_flight) ==
    SelectSeq(pending, LAMBDA j : j \notin in_flight)

available_slots_of_ceiling(in_flight) == max_concurrent_downloads

available_slots(in_flight) == max_concurrent_downloads - Cardinality(in_flight)

claimed_jobs_sliced_before_filter(pending, in_flight) ==
    IF available_slots(in_flight) <= 0
      THEN <<>>
      ELSE jobs_to_process(Head_n(pending, available_slots(in_flight)), in_flight)

\* the job ids one poll cycle launches
claimed_jobs(pending, in_flight) ==
    IF available_slots(in_flight) <= 0
      THEN <<>>
      ELSE Head_n(jobs_to_process(pending, in_flight), available_slots(in_flight))

add_claimed_after_launch(in_flight, claimed) == in_flight

\* self.current_jobs.add(job.id), before create_task and with no await since
\* the filter read current_jobs
add_claimed(in_flight, claimed) == in_flight \cup SeqToSet(claimed)

\* asyncio.create_task(self._process_download_job(job.id))
NewTask(j) == [job_id |-> j, pc |-> "created", retry_count |-> 0,
               progress_percent |-> 0]

TasksOf(j) == {t \in BagToSet(tasks) : t.job_id = j}
NumTasksOf(j) == BagCardinality([t \in TasksOf(j) |-> tasks[t]])

\* ----------------------------------------------------- the progress hook
\* _progress_hook for a "downloading" report: the percentage keeps its last
\* value when the total is unknown
_progress_hook(last_percent, downloaded_bytes, total_bytes) ==
    IF total_bytes # NoBytes /\ total_bytes # 0
      THEN (downloaded_bytes * 100) \div total_bytes
      ELSE last_percent

\* d.get("total_bytes") or d.get("total_bytes_estimate")
total_or_estimate(total_bytes, total_bytes_estimate) ==
    IF total_bytes # NoBytes /\ total_bytes # 0
      THEN total_bytes
      ELSE total_bytes_estimate

progress_callback_awaited(job, progress_percent, downloaded_bytes, total_bytes) ==
    [job EXCEPT !.progress_percent = progress_percent,
                !.downloaded_bytes = downloaded_bytes,
                !.total_bytes = total_bytes]

\* progress_callback is a coroutine function called from the synchronous
\* yt-dlp hook: the coroutine object is created and never awaited, so its
\* update_progress never runs and the row is left as it is
progress_callback(job, progress_percent, downloaded_bytes, total_bytes) == job

\* ---------------------------------------------------------------- actions
\* create_download_jobs: a new row, status PENDING
CreateJob(j) ==
    /\ jobs[j].status = ABSENT
    /\ \A i \in JobIds : i < j => jobs[i].status # ABSENT
    /\ jobs' = [jobs EXCEPT ![j] = NewJob]
    /\ UNCHANGED <<video_links, running, current_jobs, loop, pending_jobs, pending_rows, second_loop, tasks, cancels, disturbances, progress, other_worker, fetches>>

\* start(): running = True, enter the loop
Start ==
    /\ loop = "not_started"
    /\ running' = TRUE
    /\ loop' = "idle"
    /\ UNCHANGED <<jobs, video_links, current_jobs, pending_jobs, pending_rows, second_loop, tasks, cancels, disturbances, progress, other_worker, fetches>>

loop_continues_always(flag) == TRUE

\* while self.running
loop_continues(flag) == flag

\* _process_pending_jobs up to the await of get_by_status
PollQuery ==
    /\ loop = "idle"
    /\ loop_continues(running)
    /\ pending_jobs' = get_by_status(jobs, PENDING, max_concurrent_downloads)
    /\ pending_rows' = rows_with_status(jobs, PENDING)
    /\ loop' = "queried"
    /\ UNCHANGED <<jobs, video_links, running, current_jobs, second_loop, tasks, cancels, disturbances, progress, other_worker, fetches>>

\* _process_pending_jobs after the query: filter, slots, claim, create_task
PollClaim ==
    /\ loop = "queried"
    /\ LET claimed == claimed_jobs(pending_jobs, current_jobs)
       IN  /\ current_jobs' = add_claimed(current_jobs, claimed)
           /\ tasks' = tasks (+) SetToBag({NewTask(j) : j \in SeqToSet(claimed)})
    /\ loop' = "idle"
    /\ pending_jobs' = <<>>
    /\ pending_rows' = <<>>
    /\ UNCHANGED <<jobs, video_links, running, second_loop, cancels, disturbances, progress, other_worker, fetches>>

after_cycle_error_raised == "exited"

\* except Exception in start(): log, sleep one interval, test the flag again
after_cycle_error == "idle"

\* a poll cycle whose get_by_status raises: nothing was claimed
PollQueryFails ==
    /\ loop = "idle"
    /\ loop_continues(running)
    /\ disturbances < MaxDisturbances
    /\ disturbances' = disturbances + 1
    /\ loop' = after_cycle_error
    /\ UNCHANGED <<jobs, video_links, running, current_jobs, pending_jobs, pending_rows, second_loop, tasks, cancels, progress, other_worker, fetches>>

\* a poll cycle that raises when get_db_context commits and closes the
\* session on exit: the claim step has already run
PollCloseFails ==
    /\ loop = "queried"
    /\ disturbances < MaxDisturbances
    /\ disturbances' = disturbances + 1
    /\ LET claimed == claimed_jobs(pending_jobs, current_jobs)
       IN  /\ current_jobs' = add_claimed(current_jobs, claimed)
           /\ tasks' = tasks (+) SetToBag({NewTask(j) : j \in SeqToSet(claimed)})
    /\ loop' = after_cycle_error
    /\ pending_jobs' = <<>>
    /\ pending_rows' = <<>>
    /\ UNCHANGED <<jobs, video_links, running, second_loop, cancels, progress, other_worker, fetches>>

\* stop(): running = False
Stop ==
    /\ loop # "not_started"
    /\ running
    /\ running' = FALSE
    /\ UNCHANGED <<jobs, video_links, current_jobs, loop, pending_jobs, pending_rows, second_loop, tasks, cancels, disturbances, progress, other_worker, fetches>>

\* the while test of start() finds running false: start() returns
LoopExit ==
    /\ loop = "idle"
    /\ ~loop_continues(running)
    /\ loop' = "exited"
    /\ UNCHANGED <<jobs, video_links, running, current_jobs, pending_jobs, pending_rows, second_loop, tasks, cancels, disturbances, progress, other_worker, fetches>>

\* lifespan shutdown: worker_task.cancel() after stop() ends the loop at
\* the await it is suspended in
LoopCancelled ==
    /\ ~running
    /\ loop \in {"idle", "queried"}
    /\ loop' = "exited"
    /\ pending_jobs' = <<>>
    /\ pending_rows' = <<>>
    /\ UNCHANGED <<jobs, video_links, running, current_jobs, second_loop, tasks, cancels, disturbances, progress, other_worker, fetches>>

\* start() called again on the same worker: a second loop over the same
\* running flag and current_jobs
StartAgain ==
    /\ loop # "not_started"
    /\ second_loop.pos = "not_started"
    /\ running' = TRUE
    /\ second_loop' = [second_loop EXCEPT !.pos = "idle"]
    /\ UNCHANGED <<jobs, video_links, current_jobs, loop, pending_jobs, pending_rows, tasks, cancels, disturbances, progress, other_worker, fetches>>

\* the second loop's _process_pending_jobs up to the await of get_by_status
SecondPollQuery ==
    /\ second_loop.pos = "idle"
    /\ running
    /\ second_loop' = [pos |-> "queried",
                       pending_jobs |-> get_by_status(jobs, PENDING, max_concurrent_downloads)]
    /\ UNCHANGED <<jobs, video_links, running, current_jobs, loop, pending_jobs, pending_rows, tasks, cancels, disturbances, progress, other_worker, fetches>>

\* the second loop's _process_pending_jobs after the query
SecondPollClaim ==
    /\ second_loop.pos = "queried"
    /\ LET claimed == claimed_jobs(second_loop.pending_jobs, current_jobs)
       IN  /\ current_jobs' = add_claimed(current_jobs, claimed)
           /\ tasks' = tasks (+) SetToBag({NewTask(j) : j \in SeqToSet(claimed)})
    /\ second_loop' = [pos |-> "idle", pending_jobs |-> <<>>]
    /\ UNCHANGED <<jobs, video_links, running, loop, pending_jobs, pending_rows, cancels, disturbances, progress, other_worker, fetches>>

ReplaceTask(t, u) == (tasks (-) SetToBag({t})) (+) SetToBag({u})

MarkDownloadingBy_before_commit(t) ==
    /\ t.pc = "created"
    /\ tasks' = ReplaceTask(t, [t EXCEPT !.pc = "downloading",
                                         !.retry_count = jobs[t.job_id].retry_count])
    /\ UNCHANGED <<jobs, video_links, running, current_jobs, loop, pending_jobs, pending_rows, second_loop, cancels, disturbances, progress, other_worker, fetches>>

\* _process_download_job: get_with_details, update_status(DOWNLOADING), commit
MarkDownloadingBy(t) ==
    /\ t.pc = "created"
    /\ LET j == t.job_id
           row == update_status(jobs[j], DOWNLOADING, NULL, jobs[j].retry_count + 1)
       IN  /\ jobs' = [jobs EXCEPT ![j] = row]
           /\ tasks' = ReplaceTask(t, [t EXCEPT !.pc = "downloading",
                                                !.retry_count = row.retry_count])
    /\ UNCHANGED <<video_links, running, current_jobs, loop, pending_jobs, pending_rows, second_loop, cancels, disturbances, progress, other_worker, fetches>>

TaskMarkDownloading(j) == \E t \in TasksOf(j) : MarkDownloadingBy(t)

\* a progress report of yt-dlp during download_video
ProgressBy(t, report) ==
    /\ t.pc = "downloading"
    /\ LET j == t.job_id
           percent == _progress_hook(t.progress_percent, report[1], report[2])
       IN  /\ jobs' = [jobs EXCEPT ![j] = progress_callback(jobs[j], percent, report[1], report[2])]
           /\ tasks' = ReplaceTask(t, [t EXCEPT !.progress_percent = percent])
    /\ UNCHANGED <<video_links, running, current_jobs, loop, pending_jobs, pending_rows, second_loop, cancels, disturbances, progress, other_worker, fetches>>

TaskProgress(j) == \E t \in TasksOf(j), r \in ProgressReports : ProgressBy(t, r)

\* download_video returned success: update(COMPLETED ...), mark_as_downloaded, commit
SucceedBy(t) ==
    /\ t.pc = "downloading"
    /\ LET j == t.job_id
       IN  /\ jobs' = [jobs EXCEPT ![j] = completed_update(jobs[j], OutputFile, OutputSize)]
           /\ video_links' = [video_links EXCEPT ![j] = mark_as_downloaded(video_links[j], OutputFile, OutputSize)]
           /\ tasks' = ReplaceTask(t, [t EXCEPT !.pc = "closing"])
    /\ UNCHANGED <<running, current_jobs, loop, pending_jobs, pending_rows, second_loop, cancels, disturbances, progress, other_worker, fetches>>

TaskSucceed(j) == \E t \in TasksOf(j) : SucceedBy(t)

failure_update_requeue_at_limit(job, held_retry_count, error_message) ==
    IF held_retry_count <= worker_max_retries
      THEN update_status(increment_retry_count(job, held_retry_count), PENDING, error_message, 0)
      ELSE update_status(job, FAILED, error_message, 0)

\* the row after a reported fetch failure, decided on the retry_count the
\* session holds
failure_update(job, held_retry_count, error_message) ==
    IF held_retry_count < worker_max_retries
      THEN update_status(increment_retry_count(job, held_retry_count), PENDING, error_message, 0)
      ELSE update_status(job, FAILED, error_message, 0)

\* download_video returned failure: requeue or FAILED, commit
FailureBy(t, e) ==
    /\ t.pc = "downloading"
    /\ LET j == t.job_id
       IN  /\ jobs' = [jobs EXCEPT ![j] = failure_update(jobs[j], t.retry_count, e)]
           /\ tasks' = ReplaceTask(t, [t EXCEPT !.pc = "closing"])
    /\ UNCHANGED <<video_links, running, current_jobs, loop, pending_jobs, pending_rows, second_loop, cancels, disturbances, progress, other_worker, fetches>>

TaskFailure(j) == \E t \in TasksOf(j), e \in FetchErrors : FailureBy(t, e)

\* an exception inside the execution: the session rolls back, the handler
\* writes FAILED in a session of its own
ExceptionBy(t) ==
    /\ t.pc \in {"created", "downloading"}
    /\ disturbances < MaxDisturbances
    /\ disturbances' = disturbances + 1
    /\ LET j == t.job_id
       IN  /\ jobs' = [jobs EXCEPT ![j] = update_status(jobs[j], FAILED, ExceptionText, 0)]
           /\ tasks' = ReplaceTask(t, [t EXCEPT !.pc = "closing"])
    /\ UNCHANGED <<video_links, running, current_jobs, loop, pending_jobs, pending_rows, second_loop, cancels, progress, other_worker, fetches>>

TaskException(j) == \E t \in TasksOf(j) : ExceptionBy(t)

\* an exception inside the execution whose handler's write fails as well
ExceptionUnrecordedBy(t) ==
    /\ t.pc \in {"created", "downloading"}
    /\ disturbances < MaxDisturbances
    /\ disturbances' = disturbances + 1
    /\ tasks' = ReplaceTask(t, [t EXCEPT !.pc = "closing"])
    /\ UNCHANGED <<jobs, video_links, running, current_jobs, loop, pending_jobs, pending_rows, second_loop, cancels, progress, other_worker, fetches>>

TaskExceptionUnrecorded(j) == \E t \in TasksOf(j) : ExceptionUnrecordedBy(t)

discard_skipped(in_flight, job_id) == in_flight

\* self.current_jobs.discard(job_id)
discard(in_flight, job_id) == in_flight \ {job_id}

\* finally: self.current_jobs.discard(job_id); the task ends
FinallyBy(t) ==
    /\ t.pc = "closing"
    /\ current_jobs' = discard(current_jobs, t.job_id)
    /\ tasks' = tasks (-) SetToBag({t})
    /\ UNCHANGED <<jobs, video_links, running, loop, pending_jobs, pending_rows, second_loop, cancels, disturbances, progress, other_worker, fetches>>

TaskFinally(j) == \E t \in TasksOf(j) : FinallyBy(t)

\* cancel_download_job: download_job_repo.get finds the row PENDING or
\* DOWNLOADING; the request goes on to its write
CancelRead(j) ==
    /\ cancels[j] = "none"
    /\ disturbances < MaxDisturbances
    /\ jobs[j].status \in {PENDING, DOWNLOADING}
    /\ cancels' = [cancels EXCEPT ![j] = "read"]
    /\ disturbances' = disturbances + 1
    /\ UNCHANGED <<jobs, video_links, running, current_jobs, loop, pending_jobs, pending_rows, second_loop, tasks, progress, other_worker, fetches>>

\* cancel_download_job on a row in a terminal status: "Cannot cancel job"
CancelRefused(j) ==
    /\ disturbances < MaxDisturbances
    /\ jobs[j].status \in TerminalStatus
    /\ disturbances' = disturbances + 1
    /\ UNCHANGED <<jobs, video_links, running, current_jobs, loop, pending_jobs, pending_rows, second_loop, tasks, cancels, progress, other_worker, fetches>>

\* cancel_download_job for an id with no row: 404
CancelNotFound(j) ==
    /\ disturbances < MaxDisturbances
    /\ jobs[j].status = ABSENT
    /\ disturbances' = disturbances + 1
    /\ UNCHANGED <<jobs, video_links, running, current_jobs, loop, pending_jobs, pending_rows, second_loop, tasks, cancels, progress, other_worker, fetches>>

\* cancel_download_job: update_status(CANCELLED), commit
CancelWrite(j) ==
    /\ cancels[j] = "read"
    /\ jobs' = [jobs EXCEPT ![j] = update_status(jobs[j], CANCELLED, NULL, 0)]
    /\ cancels' = [cancels EXCEPT ![j] = "none"]
    /\ UNCHANGED <<video_links, running, current_jobs, loop, pending_jobs, pending_rows, second_loop, tasks, disturbances, progress, other_worker, fetches>>

Next ==
    \/ \E j \in JobIds : CreateJob(j)
    \/ Start
    \/ PollQuery
    \/ PollClaim
    \/ \E j \in JobIds : TaskMarkDownloading(j)
    \/ \E j \in JobIds : TaskProgress(j)
    \/ \E j \in JobIds : TaskSucceed(j)
    \/ \E j \in JobIds : TaskFailure(j)
    \/ \E j \in JobIds : TaskException(j)
    \/ \E j \in JobIds : TaskExceptionUnrecorded(j)
    \/ \E j \in JobIds : TaskFinally(j)
    \/ \E j \in JobIds : CancelRead(j)
    \/ \E j \in JobIds : CancelRefused(j)
    \/ \E j \in JobIds : CancelNotFound(j)
    \/ \E j \in JobIds : CancelWrite(j)

Spec == Init /\ [][Next]_vars

\* the event loop runs every task that is ready, store calls return, and
\* download_video returns: each execution takes its next step
FairExecutions ==
    \A j \in JobIds :
        /\ WF_vars(TaskMarkDownloading(j))
        /\ WF_vars(TaskSucceed(j) \/ TaskFailure(j))
        /\ WF_vars(TaskFinally(j))

\* the worker and its executions, with no cancel request
NextExecutions ==
    \/ \E j \in JobIds : CreateJob(j)
    \/ Start
    \/ PollQuery
    \/ PollClaim
    \/ \E j \in JobIds : TaskMarkDownloading(j)
    \/ \E j \in JobIds : TaskProgress(j)
    \/ \E j \in JobIds : TaskSucceed(j)
    \/ \E j \in JobIds : TaskFailure(j)
    \/ \E j \in JobIds : TaskException(j)
    \/ \E j \in JobIds : TaskExceptionUnrecorded(j)
    \/ \E j \in JobIds : TaskFinally(j)

SpecFairExecutions == Init /\ [][NextExecutions]_vars /\ FairExecutions

\* the worker and its executions with store operations succeeding and no
\* cancel request
NextQuiet ==
    \/ \E j \in JobIds : CreateJob(j)
    \/ Start
    \/ PollQuery
    \/ PollClaim
    \/ \E j \in JobIds : TaskMarkDownloading(j)
    \/ \E j \in JobIds : TaskProgress(j)
    \/ \E j \in JobIds : TaskSucceed(j)
    \/ \E j \in JobIds : TaskFailure(j)
    \/ \E j \in JobIds : TaskFinally(j)

\* the application starts the worker, and each pass of the while loop
\* sleeps one interval and polls again
FairLoop ==
    /\ WF_vars(Start)
    /\ WF_vars(PollQuery)
    /\ WF_vars(PollClaim)

SpecFairQuiet == Init /\ [][NextQuiet]_vars /\ FairLoop /\ FairExecutions

\* the worker with failing poll cycles and shutdown
NextLifecycle ==
    \/ NextQuiet
    \/ PollQueryFails
    \/ PollCloseFails
    \/ Stop
    \/ LoopExit
    \/ LoopCancelled

SpecLifecycle ==
    Init /\ [][NextLifecycle]_vars /\ FairLoop /\ WF_vars(LoopExit) /\ FairExecutions

\* the yt-dlp hook called with status "downloading"
HookDownloading(downloaded_bytes, total_bytes, total_bytes_estimate) ==
    /\ progress' =
          [status |-> "downloading",
           downloaded_bytes |-> downloaded_bytes,
           total_bytes |-> total_or_estimate(total_bytes, total_bytes_estimate),
           progress_percent |->
               _progress_hook(progress.progress_percent, downloaded_bytes,
                              total_or_estimate(total_bytes, total_bytes_estimate))]
    /\ UNCHANGED <<jobs, video_links, running, current_jobs, loop, pending_jobs, pending_rows, second_loop, tasks, cancels, disturbances, other_worker, fetches>>

\* the yt-dlp hook called with status "finished"
HookFinished ==
    /\ progress' = [progress EXCEPT !.status = "finished", !.progress_percent = 100]
    /\ UNCHANGED <<jobs, video_links, running, current_jobs, loop, pending_jobs, pending_rows, second_loop, tasks, cancels, disturbances, other_worker, fetches>>

\* the yt-dlp hook called with status "error"
HookError ==
    /\ progress' = [progress EXCEPT !.status = "error"]
    /\ UNCHANGED <<jobs, video_links, running, current_jobs, loop, pending_jobs, pending_rows, second_loop, tasks, cancels, disturbances, other_worker, fetches>>

ReportedBytes == {NoBytes} \cup (0..MaxBytes)

\* one download_video call: any sequence of hook calls on its DownloadProgress
NextProgress ==
    \/ \E d \in 0..MaxBytes, tb \in ReportedBytes, est \in ReportedBytes :
          HookDownloading(d, tb, est)
    \/ HookFinished
    \/ HookError

SpecProgress == Init /\ [][NextProgress]_vars

\* ---------------------------------------- a second DownloadWorker instance
OtherStart ==
    /\ other_worker.loop = "not_started"
    /\ other_worker' = [other_worker EXCEPT !.running = TRUE, !.loop = "idle"]
    /\ UNCHANGED <<jobs, video_links, running, current_jobs, loop, pending_jobs, pending_rows, second_loop, tasks, cancels, disturbances, progress, fetches>>

OtherPollQuery ==
    /\ other_worker.loop = "idle"
    /\ loop_continues(other_worker.running)
    /\ other_worker' =
          [other_worker EXCEPT
             !.loop = "queried",
             !.pending_jobs = get_by_status(jobs, PENDING, max_concurrent_downloads)]
    /\ UNCHANGED <<jobs, video_links, running, current_jobs, loop, pending_jobs, pending_rows, second_loop, tasks, cancels, disturbances, progress, fetches>>

OtherPollClaim ==
    /\ other_worker.loop = "queried"
    /\ LET claimed == claimed_jobs(other_worker.pending_jobs, other_worker.current_jobs)
       IN  other_worker' =
             [other_worker EXCEPT
                !.loop = "idle",
                !.pending_jobs = <<>>,
                !.current_jobs = add_claimed(other_worker.current_jobs, claimed),
                !.tasks = other_worker.tasks \cup {NewTask(j) : j \in SeqToSet(claimed)}]
    /\ UNCHANGED <<jobs, video_links, running, current_jobs, loop, pending_jobs, pending_rows, second_loop, tasks, cancels, disturbances, progress, fetches>>

OtherReplaceTask(t, u) == (other_worker.tasks \ {t}) \cup {u}

OtherMarkDownloading(t) ==
    /\ t.pc = "created"
    /\ LET j == t.job_id
           row == update_status(jobs[j], DOWNLOADING, NULL, jobs[j].retry_count + 1)
       IN  /\ jobs' = [jobs EXCEPT ![j] = row]
           /\ other_worker' =
                 [other_worker EXCEPT
                    !.tasks = OtherReplaceTask(t, [t EXCEPT !.pc = "downloading",
                                                            !.retry_count = row.retry_count])]
    /\ UNCHANGED <<video_links, running, current_jobs, loop, pending_jobs, pending_rows, second_loop, tasks, cancels, disturbances, progress, fetches>>

OtherSucceed(t) ==
    /\ t.pc = "downloading"
    /\ LET j == t.job_id
       IN  /\ jobs' = [jobs EXCEPT ![j] = completed_update(jobs[j], OutputFile, OutputSize)]
           /\ video_links' = [video_links EXCEPT ![j] = mark_as_downloaded(video_links[j], OutputFile, OutputSize)]
    /\ other_worker' = [other_worker EXCEPT !.tasks = OtherReplaceTask(t, [t EXCEPT !.pc = "closing"])]
    /\ UNCHANGED <<running, current_jobs, loop, pending_jobs, pending_rows, second_loop, tasks, cancels, disturbances, progress, fetches>>

OtherFinally(t) ==
    /\ t.pc = "closing"
    /\ other_worker' =
          [other_worker EXCEPT
             !.current_jobs = discard(other_worker.current_jobs, t.job_id),
             !.tasks = other_worker.tasks \ {t}]
    /\ UNCHANGED <<jobs, video_links, running, current_jobs, loop, pending_jobs, pending_rows, second_loop, tasks, cancels, disturbances, progress, fetches>>

OtherTaskMarkDownloading(j) ==
    \E t \in other_worker.tasks : t.job_id = j /\ OtherMarkDownloading(t)

OtherTaskSucceed(j) ==
    \E t \in other_worker.tasks : t.job_id = j /\ OtherSucceed(t)

OtherTaskFinally(j) ==
    \E t \in other_worker.tasks : t.job_id = j /\ OtherFinally(t)

\* two DownloadWorker instances polling one store, store operations and
\* fetches succeeding
NextTwoWorkers ==
    \/ \E j \in JobIds : CreateJob(j)
    \/ Start
    \/ PollQuery
    \/ PollClaim
    \/ \E j \in JobIds : TaskMarkDownloading(j)
    \/ \E j \in JobIds : TaskSucceed(j)
    \/ \E j \in JobIds : TaskFinally(j)
    \/ OtherStart
    \/ OtherPollQuery
    \/ OtherPollClaim
    \/ \E j \in JobIds : OtherTaskMarkDownloading(j)
    \/ \E j \in JobIds : OtherTaskSucceed(j)
    \/ \E j \in JobIds : OtherTaskFinally(j)

SpecTwoWorkers == Init /\ [][NextTwoWorkers]_vars

\* start() called twice on one worker, store operations succeeding
NextTwoLoops ==
    \/ \E j \in JobIds : CreateJob(j)
    \/ Start
    \/ PollQuery
    \/ PollClaim
    \/ StartAgain
    \/ SecondPollQuery
    \/ SecondPollClaim
    \/ \E j \in JobIds : TaskMarkDownloading(j)
    \/ \E j \in JobIds : TaskProgress(j)
    \/ \E j \in JobIds : TaskSucceed(j)
    \/ \E j \in JobIds : TaskFailure(j)
    \/ \E j \in JobIds : TaskFinally(j)

SpecTwoLoops == Init /\ [][NextTwoLoops]_vars

\* ------------------------------------------------------------------ types
TypeOK ==
    /\ \A j \in JobIds :
         /\ jobs[j].status \in DownloadStatus \cup {ABSENT}
         /\ jobs[j].retry_count \in Nat
         /\ jobs[j].progress_percent \in 0..100
    /\ current_jobs \subseteq JobIds
    /\ IsABag(tasks)

\* ------------------------------------------------------------ properties
Exists(j) == jobs[j].status # ABSENT

\* C1: the number of executions in flight (ids in current_jobs, tasks
\* launched and not yet finished) never exceeds max_concurrent_downloads.
C1_ConcurrencyBound ==
    /\ Cardinality(current_jobs) <= max_concurrent_downloads
    /\ BagCardinality(tasks) <= max_concurrent_downloads

\* the ceiling is reached while another PENDING job waits outside the set
C1_Witness ==
    /\ Cardinality(current_jobs) = max_concurrent_downloads
    /\ BagCardinality(tasks) = max_concurrent_downloads
    /\ \E j \in JobIds : jobs[j].status = PENDING /\ j \notin current_jobs

\* C2: once a job's status is COMPLETED, FAILED or CANCELLED no step
\* changes it.
C2_TerminalImmutable ==
    [][\A j \in JobIds :
         jobs[j].status \in TerminalStatus => jobs'[j].status = jobs[j].status]_vars

\* C3: at most one execution task is active for a job id at any time.
C3_OneTaskPerJob == \A j \in JobIds : NumTasksOf(j) <= 1

\* a poll cycle has queried a job that its execution requeued as PENDING and
\* that is still in the in-flight set, with a slot free
C3_Witness ==
    \E t \in BagToSet(tasks) :
        /\ t.pc = "closing"
        /\ jobs[t.job_id].status = PENDING
        /\ jobs[t.job_id].retry_count > 0
        /\ t.job_id \in current_jobs
        /\ loop = "queried"
        /\ t.job_id \in SeqToSet(pending_jobs)
        /\ available_slots(current_jobs) > 0

\* C4: every job in a terminal status has completed_at set.
C4_TerminalHasCompletedAt ==
    \A j \in JobIds : jobs[j].status \in TerminalStatus => jobs[j].completed_at

\* C5: every PENDING or DOWNLOADING job has completed_at unset.
C5_ActiveHasNoCompletedAt ==
    \A j \in JobIds : jobs[j].status \in {PENDING, DOWNLOADING} => ~jobs[j].completed_at

\* a reported fetch failure handled by the execution t
FetchFailed(t, e) == FailureBy(t, e)

\* C6: retry_count never exceeds worker_max_retries; a fetch failure requeues
\* the job only below the limit and makes it FAILED exactly at the limit.
C6_RetryBound ==
    /\ [](\A j \in JobIds : jobs[j].retry_count <= worker_max_retries)
    /\ [][\A t \in BagToSet(tasks), e \in FetchErrors :
            FetchFailed(t, e) =>
              /\ jobs'[t.job_id].status = PENDING
                   <=> jobs[t.job_id].retry_count < worker_max_retries
              /\ jobs'[t.job_id].status = FAILED
                   <=> jobs[t.job_id].retry_count = worker_max_retries]_vars

\* a job made FAILED by a fetch failure at the limit, its execution not yet ended
C6_Witness ==
    \E t \in BagToSet(tasks) :
        /\ t.pc = "closing"
        /\ jobs[t.job_id].status = FAILED
        /\ jobs[t.job_id].error_message \in FetchErrors
        /\ jobs[t.job_id].retry_count = worker_max_retries

\* C7: a fetch failure of a DOWNLOADING job with retry_count = r below the
\* limit leaves it PENDING with retry_count = r + 1, the reported error and
\* completed_at unset.
C7_RetryTransition ==
    [][\A t \in BagToSet(tasks), e \in FetchErrors :
         (/\ FetchFailed(t, e)
          /\ jobs[t.job_id].status = DOWNLOADING
          /\ jobs[t.job_id].retry_count < worker_max_retries)
         => /\ jobs'[t.job_id].status = PENDING
            /\ jobs'[t.job_id].retry_count = jobs[t.job_id].retry_count + 1
            /\ jobs'[t.job_id].error_message = e
            /\ ~jobs'[t.job_id].completed_at]_vars

\* C8: a fetch failure of a DOWNLOADING job with retry_count at the limit
\* leaves it FAILED with the reported error, completed_at set and
\* retry_count unchanged.
C8_FailureTransition ==
    [][\A t \in BagToSet(tasks), e \in FetchErrors :
         (/\ FetchFailed(t, e)
          /\ jobs[t.job_id].status = DOWNLOADING
          /\ jobs[t.job_id].retry_count >= worker_max_retries)
         => /\ jobs'[t.job_id].status = FAILED
            /\ jobs'[t.job_id].error_message = e
            /\ jobs'[t.job_id].completed_at
            /\ jobs'[t.job_id].retry_count = jobs[t.job_id].retry_count]_vars

\* a job whose last attempt failed at the limit: FAILED, error recorded
C8_Witness ==
    \E t \in BagToSet(tasks) :
        /\ t.pc = "closing"
        /\ t.retry_count = worker_max_retries
        /\ jobs[t.job_id].status = FAILED
        /\ jobs[t.job_id].completed_at
        /\ jobs[t.job_id].error_message \in FetchErrors

\* C9: a COMPLETED job has output_path set and progress_percent = 100.
C9_CompletedHasOutput ==
    \A j \in JobIds :
        jobs[j].status = COMPLETED
          => jobs[j].output_path # NULL /\ jobs[j].progress_percent = 100

\* a job completed by an execution that had received a progress report
C9_Witness ==
    \E t \in BagToSet(tasks) :
        /\ t.pc = "closing"
        /\ t.progress_percent \in 1..99
        /\ jobs[t.job_id].status = COMPLETED

\* C10: output_path and file_size_bytes are set if and only if the status is
\* COMPLETED.
C10_OutputIffCompleted ==
    \A j \in JobIds :
        Exists(j) =>
          ((jobs[j].output_path # NULL /\ jobs[j].file_size_bytes # NoBytes)
             <=> jobs[j].status = COMPLETED)

\* C11: started_at is set once, on the first entry into DOWNLOADING, and
\* keeps that value when a requeued job enters DOWNLOADING again.
C11_StartedAtSetOnce ==
    [][\A j \in JobIds :
         jobs[j].started_at # 0 => jobs'[j].started_at = jobs[j].started_at]_vars

\* C12: a PENDING, FAILED or CANCELLED job has progress_percent = 0 and
\* downloaded_bytes = 0.
C12_NoProgressOutsideDownload ==
    \A j \in JobIds :
        jobs[j].status \in {PENDING, FAILED, CANCELLED}
          => jobs[j].progress_percent = 0 /\ jobs[j].downloaded_bytes = 0

\* C13: a poll cycle claims exactly the k oldest jobs among those its query
\* found PENDING whose ids are not in current_jobs, with
\* k = min(max_concurrent_downloads - |current_jobs|, number of such jobs),
\* although the query is cut to max_concurrent_downloads rows before the
\* in-flight filter is applied.
C13_ClaimsOldestPending ==
    [][PollClaim =>
         LET eligible == SelectSeq(pending_rows, LAMBDA j : j \notin current_jobs)
             slots == max_concurrent_downloads - Cardinality(current_jobs)
             k == IF slots <= Len(eligible) THEN slots ELSE Len(eligible)
             oldest == SeqToSet(Head_n(eligible, k))
         IN  /\ current_jobs' = current_jobs \cup oldest
             /\ tasks' = tasks (+) SetToBag({NewTask(j) : j \in oldest})]_vars

\* a cycle whose query was cut by the limit: the result holds an in-flight
\* job, an eligible job lies beyond the limit, and a slot is free
C13_Witness ==
    /\ loop = "queried"
    /\ Len(pending_rows) > max_concurrent_downloads
    /\ \E i \in DOMAIN pending_jobs : pending_jobs[i] \in current_jobs
    /\ available_slots(current_jobs) > 0
    /\ \E i \in DOMAIN pending_jobs : pending_jobs[i] \notin current_jobs

\* C14: with two poll loops started on one worker, every live task's job id
\* is in current_jobs, no job id has two live tasks, and the two loops
\* together never hold more than max_concurrent_downloads executions.
C14_TwoLoopsClaimOnce ==
    /\ \A t \in BagToSet(tasks) : t.job_id \in current_jobs
    /\ \A j \in JobIds : NumTasksOf(j) <= 1
    /\ BagCardinality(tasks) <= max_concurrent_downloads
    /\ Cardinality(current_jobs) <= max_concurrent_downloads

\* both loops are between their query and their claim, and both query
\* results hold the same job, which no execution owns yet
C14_Witness ==
    /\ loop = "queried"
    /\ second_loop.pos = "queried"
    /\ \E j \in SeqToSet(pending_jobs) \cap SeqToSet(second_loop.pending_jobs) :
         j \notin current_jobs

\* C15: an id stays in current_jobs only while its execution is live, every
\* ending execution removes its id, and each id in current_jobs is
\* eventually removed (at every moment there is a later one at which the id
\* is outside current_jobs).
C15_InFlightReleased ==
    /\ [](\A j \in current_jobs : NumTasksOf(j) >= 1)
    /\ [][\A j \in JobIds : TaskFinally(j) => j \notin current_jobs']_vars
    /\ \A j \in JobIds : []<>(j \notin current_jobs)

\* an execution that ended by an exception whose FAILED write failed as
\* well has left current_jobs: the job is still DOWNLOADING, nothing owns it
C15_Witness ==
    \E j \in JobIds :
        /\ jobs[j].status = DOWNLOADING
        /\ j \notin current_jobs
        /\ NumTasksOf(j) = 0
        /\ disturbances = MaxDisturbances

\* C16: with the loop running, store operations succeeding, the Fetcher
\* returning, no cancel request and fair scheduling, every job that exists
\* is from some moment on COMPLETED or FAILED for good.
C16_EveryJobSettles ==
    \A j \in JobIds :
        <>[](Exists(j) => jobs[j].status \in {COMPLETED, FAILED})

\* all three jobs are settled and nothing is in flight: one was requeued and
\* then completed, one exhausted its retries
C16_Witness ==
    /\ \A j \in JobIds : jobs[j].status \in {COMPLETED, FAILED}
    /\ current_jobs = {}
    /\ tasks = EmptyBag
    /\ \E j \in JobIds : jobs[j].status = COMPLETED /\ jobs[j].retry_count >= 1
    /\ \E j \in JobIds : jobs[j].status = FAILED /\ jobs[j].retry_count = worker_max_retries

\* C17: a cancel request writes to a job only while the job is PENDING or
\* DOWNLOADING and then sets CANCELLED and completed_at; a cancel request
\* on a COMPLETED, FAILED or CANCELLED job, or on an id with no row, leaves
\* every job unchanged.
C17_CancelOnlyActive ==
    [][\A j \in JobIds :
         /\ CancelWrite(j) =>
                /\ jobs[j].status \in {PENDING, DOWNLOADING}
                /\ jobs'[j].status = CANCELLED
                /\ jobs'[j].completed_at
         /\ (CancelRefused(j) \/ CancelNotFound(j)) => jobs' = jobs]_vars

\* C18: an exception raised during a job's execution leaves the job FAILED
\* with the exception text as error_message and completed_at set, with its
\* retry_count as it was, whatever that count is.
C18_ExceptionFails ==
    [][\A j \in JobIds :
         (TaskException(j) \/ TaskExceptionUnrecorded(j)) =>
             /\ jobs'[j].status = FAILED
             /\ jobs'[j].error_message = ExceptionText
             /\ jobs'[j].completed_at
             /\ jobs'[j].retry_count = jobs[j].retry_count]_vars

\* C19 as stated: a poll cycle that raises leaves the loop alive and leaves
\* current_jobs and every job record unchanged.
C19_FailedCycleChangesNothing ==
    [][(PollQueryFails \/ PollCloseFails) =>
          /\ loop' = "idle"
          /\ current_jobs' = current_jobs
          /\ jobs' = jobs]_vars

\* C19 amended: a poll cycle that raises never ends the loop, which polls
\* again while running is true; it changes no job record; a cycle whose
\* query raises launches nothing, and a cycle that raises after its claim
\* step keeps the claims it made.
C19_FailedCycleKeepsLoop ==
    /\ [](loop = "exited" => ~running)
    /\ [](loop = "idle" /\ running => ENABLED PollQuery)
    /\ [][(PollQueryFails \/ PollCloseFails) => loop' = "idle" /\ jobs' = jobs]_vars
    /\ [][PollQueryFails => current_jobs' = current_jobs /\ tasks' = tasks]_vars
    /\ [][PollCloseFails =>
            /\ current_jobs \subseteq current_jobs'
            /\ \A j \in current_jobs' \ current_jobs :
                 j \in SeqToSet(pending_jobs) /\ NumTasksOf(j) = 0
            /\ \A t \in BagToSet(tasks') : t.job_id \in current_jobs']_vars

\* a cycle has failed, the loop is idle and running, and the failed cycle's
\* claim is in flight
C19_Witness ==
    /\ disturbances = MaxDisturbances
    /\ loop = "idle"
    /\ running
    /\ current_jobs # {}
    /\ \E t \in BagToSet(tasks) : t.pc = "created"

\* C20: stop() changes neither current_jobs nor any job record nor any
\* execution; after it no poll cycle begins and, once the cycle in progress
\* is over, nothing more is claimed; the loop exits and the executions in
\* flight run to their end.
C20_StopEndsPolling ==
    /\ [][Stop => current_jobs' = current_jobs /\ jobs' = jobs /\ tasks' = tasks]_vars
    /\ [][PollQuery => running]_vars
    /\ [][~running /\ loop # "queried" => current_jobs' \subseteq current_jobs]_vars
    /\ <>[](~running /\ loop # "not_started" =>
              loop = "exited" /\ tasks = EmptyBag /\ current_jobs = {})

\* the worker is stopped and its loop has exited while an execution is
\* still downloading
C20_Witness ==
    /\ ~running
    /\ loop = "exited"
    /\ \E t \in BagToSet(tasks) : t.pc = "downloading" /\ t.job_id \in current_jobs

\* C21: a COMPLETED job's VideoLink is marked downloaded with the job's
\* output_path and file_size_bytes, the two rows change in one step, and a
\* VideoLink row changes only in the step of an execution that succeeded.
C21_CompletedMarksVideoLink ==
    /\ [](\A j \in JobIds :
            jobs[j].status = COMPLETED =>
                /\ video_links[j].is_downloaded
                /\ video_links[j].download_path = jobs[j].output_path
                /\ video_links[j].file_size_bytes = jobs[j].file_size_bytes)
    /\ [][\A j \in JobIds :
            video_links'[j] # video_links[j] =>
                /\ TaskSucceed(j)
                /\ jobs'[j].status = COMPLETED
                /\ video_links'[j].is_downloaded]_vars

\* one job is COMPLETED with its VideoLink marked, another has FAILED and
\* its VideoLink is not marked
C21_Witness ==
    /\ \E j \in JobIds : jobs[j].status = COMPLETED /\ video_links[j].is_downloaded
    /\ \E j \in JobIds : jobs[j].status = FAILED /\ ~video_links[j].is_downloaded

\* C22: a poll cycle that finds no PENDING job while current_jobs is empty
\* launches nothing, leaves current_jobs empty and writes no row: its query
\* step and its claim step change only the loop's position, which returns
\* to where it was, so repeating the cycle gives the same state.
C22_EmptyPollIsNoOp ==
    /\ [][(PollQuery /\ current_jobs = {} /\ \A j \in JobIds : jobs[j].status # PENDING) =>
            /\ loop' = "queried"
            /\ pending_jobs' = <<>>
            /\ UNCHANGED <<jobs, video_links, running, current_jobs, pending_jobs,
                           pending_rows, second_loop, tasks, cancels, disturbances, progress, other_worker, fetches>>]_vars
    /\ [][(PollClaim /\ current_jobs = {} /\ pending_jobs = <<>>) =>
            /\ loop' = "idle"
            /\ UNCHANGED <<jobs, video_links, running, current_jobs, pending_jobs,
                           pending_rows, second_loop, tasks, cancels, disturbances, progress, other_worker, fetches>>]_vars

\* such a cycle is between its query and its claim: the store holds jobs,
\* all of them settled, and nothing is in flight
C22_Witness ==
    /\ loop = "queried"
    /\ pending_jobs = <<>>
    /\ current_jobs = {}
    /\ tasks = EmptyBag
    /\ \E j \in JobIds : jobs[j].status = COMPLETED
    /\ \A j \in JobIds : jobs[j].status # PENDING

Fetching(j) == \E t \in TasksOf(j) : t.pc = "downloading"

\* C23: a claimed job's id is in current_jobs from the claim on; its
\* execution writes DOWNLOADING, and the fetch of a job begins only in a
\* step that leaves DOWNLOADING in the store; the id is in current_jobs for
\* as long as the fetch runs; every claimed job does reach DOWNLOADING.
C23_DownloadingBeforeFetch ==
    /\ [][PollClaim => SeqToSet(claimed_jobs(pending_jobs, current_jobs)) \subseteq current_jobs']_vars
    /\ [][\A j \in JobIds :
            (Fetching(j)' /\ ~Fetching(j)) =>
                jobs'[j].status = DOWNLOADING /\ jobs'[j].started_at # 0]_vars
    /\ [](\A j \in JobIds : Fetching(j) => j \in current_jobs)
    /\ \A j \in JobIds :
         (\E t \in TasksOf(j) : t.pc = "created") ~> (jobs[j].status = DOWNLOADING)

\* scenario A: one PENDING job was claimed; it is DOWNLOADING, its fetch
\* runs, and current_jobs holds exactly its id
C23_Witness ==
    /\ jobs[1].status = DOWNLOADING
    /\ Fetching(1)
    /\ current_jobs = {1}
    /\ \A j \in JobIds \ {1} : jobs[j].status = ABSENT

\* C24: every progress report the Fetcher emits during a job's transfer is
\* written to the job's row: after the report the row holds the reported
\* downloaded_bytes and total_bytes and the percentage derived from them.
C24_ProgressReachesStore ==
    [][\A j \in JobIds :
         TaskProgress(j) =>
             \E r \in ProgressReports :
                 /\ jobs'[j].downloaded_bytes = r[1]
                 /\ jobs'[j].total_bytes = r[2]
                 /\ jobs'[j].progress_percent = _progress_hook(0, r[1], r[2])]_vars

C26_StoredProgressMonotone ==
    [][\A j \in JobIds :
         (jobs[j].status \in {PENDING, DOWNLOADING} /\ jobs'[j].status = DOWNLOADING)
            => jobs'[j].progress_percent >= jobs[j].progress_percent]_vars

\* a requeued job is DOWNLOADING in a later attempt and the Fetcher has
\* reported progress in that attempt
C26_Witness ==
    \E j \in JobIds :
        /\ jobs[j].status = DOWNLOADING
        /\ jobs[j].retry_count >= 1
        /\ \E t \in TasksOf(j) : t.pc = "downloading" /\ t.progress_percent > 0

OtherFetching(j) == \E t \in other_worker.tasks : t.job_id = j /\ t.pc = "downloading"

\* C27: with two DownloadWorker instances on one store, no job id is in
\* both workers' current_jobs at the same time and no job is being fetched
\* by both.
C27_OneWorkerPerJob ==
    /\ current_jobs \cap other_worker.current_jobs = {}
    /\ \A j \in JobIds : ~(Fetching(j) /\ OtherFetching(j))

\* ---------------------------------------------------------------------
\* Attempts: calls of download_video per job

\* _process_download_job up to its download_video call, with the call
\* recorded in the history variable fetches
CountedMarkDownloadingBy(t) ==
    /\ t.pc = "created"
    /\ fetches' = [fetches EXCEPT ![t.job_id] = @ + 1]
    /\ LET j == t.job_id
           row == update_status(jobs[j], DOWNLOADING, NULL, jobs[j].retry_count + 1)
       IN  /\ jobs' = [jobs EXCEPT ![j] = row]
           /\ tasks' = ReplaceTask(t, [t EXCEPT !.pc = "downloading",
                                                !.retry_count = row.retry_count])
    /\ UNCHANGED <<video_links, running, current_jobs, loop, pending_jobs, pending_rows, second_loop, cancels, disturbances, progress, other_worker>>

TaskCountedMarkDownloading(j) == \E t \in TasksOf(j) : CountedMarkDownloadingBy(t)

\* one worker, no cancel request, store operations succeeding, every
\* download_video call counted
NextAttempts ==
    \/ \E j \in JobIds : CreateJob(j)
    \/ Start
    \/ PollQuery
    \/ PollClaim
    \/ \E j \in JobIds : TaskCountedMarkDownloading(j)
    \/ \E j \in JobIds : TaskProgress(j)
    \/ \E j \in JobIds : TaskSucceed(j)
    \/ \E j \in JobIds : TaskFailure(j)
    \/ \E j \in JobIds : TaskFinally(j)

SpecAttempts == Init /\ [][NextAttempts]_vars

\* C28: with one worker and no cancel request, download_video is called at
\* most worker_max_retries + 1 times for a job over its whole lifetime
C28_BoundedAttempts ==
    \A j \in JobIds : fetches[j] <= worker_max_retries + 1

\* C29: whenever a job's stored status is DOWNLOADING, its id is in the
\* worker's in-flight set
C29_NoOrphanedDownloading ==
    \A j \in JobIds : jobs[j].status = DOWNLOADING => j \in current_jobs

\* C30: while a job's stored status is CANCELLED, no execution begins a
\* fetch for it and no write returns it to PENDING
C30_CancelledNeverFetched ==
    [][\A j \in JobIds :
          jobs[j].status = CANCELLED =>
              /\ ~(\E t \in TasksOf(j) : MarkDownloadingBy(t))
              /\ jobs'[j].status # PENDING]_vars

====
